---- MODULE Spec2Model ----
(***************************************************************************)
(* Model of the infer_yolo_v8 plugin: the parameter object                 *)
(* (InferYoloV8Param), the task (InferYoloV8) and the settings widget      *)
(* (InferYoloV8Widget).                                                    *)
(*                                                                         *)
(* Values of the host's string dictionary are modelled as tuples of        *)
(* one-character strings, so that parsing and formatting are computed and  *)
(* not assumed.  A model name and a weight-file path are only ever copied  *)
(* (str() of a str) or suffixed, so they are kept as atomic strings.       *)
(* A threshold (a Python float) is held as an integer count of             *)
(* 1/Scale units.                                                          *)
(***************************************************************************)
EXTENDS Integers, Sequences, FiniteSets, TLC

VARIABLES
    gpu,      \* torch.cuda.is_available() of the machine
    param,    \* the InferYoloV8Param object owned by the task (shared with the widget)
    model,    \* InferYoloV8.model: None or the loaded detector instance
    device,   \* InferYoloV8.device
    half,     \* InferYoloV8.half
    classes,  \* InferYoloV8.classes
    output,   \* the host's detection output (get_output(1)): sequence of objects
    widget,   \* None, or the widget's form controls
    calls,    \* host / detector-library calls made by the most recent handler, in order
    last,     \* the most recent operation on the task or its parameters, its input
              \* and how it ended
    nloads    \* number of detector instances constructed so far (gives instance ids)

vars == <<gpu, param, model, device, half, classes, output, widget, calls, last, nloads>>

-----------------------------------------------------------------------------
(* Bounds of the model *)

\* detector constructions explored in one behaviour
MaxLoads == 2
\* detections returned by one predict call
MaxDet == 2

-----------------------------------------------------------------------------
(* Python string <-> value conversions used by set_values / get_values *)

Digits == <<"0", "1", "2", "3", "4", "5", "6", "7", "8", "9">>

IsDigit(c) == \E d \in 1..10 : Digits[d] = c

DigitVal(c) == (CHOOSE d \in 1..10 : Digits[d] = c) - 1

IsSpace(c) == c \in {" ", "\t", "\n"}

\* str.strip(): drop leading and trailing whitespace
RECURSIVE LStrip(_)
LStrip(s) == IF s # <<>> /\ IsSpace(Head(s)) THEN LStrip(Tail(s)) ELSE s

RECURSIVE RStrip(_)
RStrip(s) ==
    IF s # <<>> /\ IsSpace(s[Len(s)]) THEN RStrip(SubSeq(s, 1, Len(s) - 1)) ELSE s

Strip(s) == LStrip(RStrip(s))

AllDigits(s) == \A i \in 1..Len(s) : IsDigit(s[i])

\* value of a digit string, most significant digit first
RECURSIVE DigitsVal(_)
DigitsVal(s) ==
    IF s = <<>> THEN 0
    ELSE 10 * DigitsVal(SubSeq(s, 1, Len(s) - 1)) + DigitVal(s[Len(s)])

\* decimal digits of a natural number
RECURSIVE NatStr(_)
NatStr(n) == IF n < 10 THEN <<Digits[n + 1]>> ELSE NatStr(n \div 10) \o <<Digits[(n % 10) + 1]>>

HasSign(s) == s # <<>> /\ Head(s) \in {"+", "-"}

Unsigned(s) == IF HasSign(s) THEN Tail(s) ELSE s

\* int(s) of a str: surrounding whitespace and one sign are accepted, then
\* at least one decimal digit.  [ok |-> FALSE] stands for ValueError.
py_int(s) ==
    LET t == Strip(s)
        d == Unsigned(t)
    IN  IF d # <<>> /\ AllDigits(d)
        THEN [ok |-> TRUE,
              val |-> IF HasSign(t) /\ Head(t) = "-" THEN 0 - DigitsVal(d) ELSE DigitsVal(d)]
        ELSE [ok |-> FALSE, val |-> 0]

\* str(n) of an int
str_int(n) == IF n < 0 THEN <<"-">> \o NatStr(0 - n) ELSE NatStr(n)

\* number of fractional decimal digits a threshold value keeps
FracDigits == 2

RECURSIVE Pow10(_)
Pow10(k) == IF k = 0 THEN 1 ELSE 10 * Pow10(k - 1)

Scale == Pow10(FracDigits)

DotAt(s) == IF \E i \in 1..Len(s) : s[i] = "." THEN CHOOSE i \in 1..Len(s) : s[i] = "." ELSE 0

\* float(s) of a str in plain decimal notation: surrounding whitespace and
\* one sign are accepted, then digits with at most one point and at least
\* one digit.  The value is returned in 1/Scale units; strings with more
\* than FracDigits fractional digits are outside the model's inputs.
py_float(s) ==
    LET t == Strip(s)
        d == Unsigned(t)
        k == DotAt(d)
        ip == IF k = 0 THEN d ELSE SubSeq(d, 1, k - 1)
        fp == IF k = 0 THEN <<>> ELSE SubSeq(d, k + 1, Len(d))
        mag == DigitsVal(ip) * Scale + DigitsVal(fp) * Pow10(FracDigits - Len(fp))
    IN  IF /\ AllDigits(ip) /\ AllDigits(fp)
           /\ Len(ip) + Len(fp) > 0
           /\ Len(fp) <= FracDigits
        THEN [ok |-> TRUE,
              val |-> IF HasSign(t) /\ Head(t) = "-" THEN 0 - mag ELSE mag]
        ELSE [ok |-> FALSE, val |-> 0]

\* fractional digits of a value below Scale, trailing zeros dropped, never empty
RECURSIVE FracStr(_, _)
FracStr(f, width) ==
    IF width = 1 THEN <<Digits[f + 1]>>
    ELSE IF f % 10 = 0 THEN FracStr(f \div 10, width - 1)
    ELSE FracStr(f \div 10, width - 1) \o <<Digits[(f % 10) + 1]>>

\* str(x) of a float: the shortest decimal that reads back as x
str_float(v) ==
    LET a == IF v < 0 THEN 0 - v ELSE v
    IN  (IF v < 0 THEN <<"-">> ELSE <<>>)
        \o NatStr(a \div Scale) \o <<".">> \o FracStr(a % Scale, FracDigits)

UpperLetters == <<"A", "B", "C", "D", "E", "F", "G", "H", "I", "J", "K", "L", "M",
                  "N", "O", "P", "Q", "R", "S", "T", "U", "V", "W", "X", "Y", "Z">>

LowerLetters == <<"a", "b", "c", "d", "e", "f", "g", "h", "i", "j", "k", "l", "m",
                  "n", "o", "p", "q", "r", "s", "t", "u", "v", "w", "x", "y", "z">>

\* str.lower(), one character
LowerChar(c) ==
    IF \E i \in 1..Len(UpperLetters) : UpperLetters[i] = c
    THEN LowerLetters[CHOOSE i \in 1..Len(UpperLetters) : UpperLetters[i] = c]
    ELSE c

Lower(s) == [i \in 1..Len(s) |-> LowerChar(s[i])]

TrueWords == {<<"y">>, <<"y", "e", "s">>, <<"t">>, <<"t", "r", "u", "e">>,
              <<"o", "n">>, <<"1">>}

FalseWords == {<<"n">>, <<"n", "o">>, <<"f">>, <<"f", "a", "l", "s", "e">>,
               <<"o", "f", "f">>, <<"0">>}

\* ikomia.utils.strtobool: case-insensitive truth words, else ValueError
strtobool(s) ==
    LET v == Lower(s)
    IN  IF v \in TrueWords THEN [ok |-> TRUE, val |-> TRUE]
        ELSE IF v \in FalseWords THEN [ok |-> TRUE, val |-> FALSE]
        ELSE [ok |-> FALSE, val |-> FALSE]

\* str(b) of a bool
str_bool(b) == IF b THEN <<"T", "r", "u", "e">> ELSE <<"F", "a", "l", "s", "e">>

-----------------------------------------------------------------------------
(* InferYoloV8Param *)

Keys == {"model_name", "cuda", "input_size", "conf_thres", "iou_thres", "update",
         "model_weight_file"}

\* a Python float literal, as the value the model holds for it
FloatLit(s) == py_float(s).val

\* faulty variant: the cuda default ignores the machine
InferYoloV8Param_cpu(g) ==
    [model_name |-> "yolov8m",
     cuda |-> FALSE,
     input_size |-> 640,
     conf_thres |-> FloatLit(<<"0", ".", "2", "5">>),
     iou_thres |-> FloatLit(<<"0", ".", "7">>),
     update |-> FALSE,
     model_weight_file |-> ""]

\* InferYoloV8Param.__init__; g is torch.cuda.is_available()
InferYoloV8Param(g) ==
    [model_name |-> "yolov8m",
     cuda |-> g,
     input_size |-> 640,
     conf_thres |-> FloatLit(<<"0", ".", "2", "5">>),
     iou_thres |-> FloatLit(<<"0", ".", "7">>),
     update |-> FALSE,
     model_weight_file |-> ""]

\* str(s) of a str
py_str(s) == [ok |-> TRUE, val |-> s]

\* the conversion set_values applies to the entry of each key it reads
Convert(key, s) ==
    CASE key = "cuda" -> strtobool(s)
      [] key = "input_size" -> py_int(s)
      [] key \in {"conf_thres", "iou_thres"} -> py_float(s)
      [] OTHER -> py_str(s)

\* faulty variant: an absent key leaves the field as it is (param_map.get)
Assign_lenient(r, m, key) ==
    IF r.err # "none" \/ key \notin DOMAIN m THEN r
    ELSE LET c == Convert(key, m[key])
         IN  IF c.ok THEN [r EXCEPT !.param[key] = c.val]
             ELSE [r EXCEPT !.err = "ValueError"]

\* one statement  self.<key> = conv(param_map[<key>])  of set_values, run on
\* the intermediate result r = [param, err]; a statement after a raise is not run
Assign(r, m, key) ==
    IF r.err # "none" THEN r
    ELSE IF key \notin DOMAIN m THEN [r EXCEPT !.err = "KeyError"]
    ELSE LET c == Convert(key, m[key])
         IN  IF c.ok THEN [r EXCEPT !.param[key] = c.val]
             ELSE [r EXCEPT !.err = "ValueError"]

\* the last statement of set_values
SetUpdate(r) == IF r.err = "none" THEN [r EXCEPT !.param.update = TRUE] ELSE r

\* InferYoloV8Param.set_values(param_map): the object after the call and how
\* the call ended
set_values(p, m) ==
    LET r0 == [param |-> p, err |-> "none"]
        r1 == Assign(r0, m, "model_name")
        r2 == Assign(r1, m, "cuda")
        r3 == Assign(r2, m, "input_size")
        r4 == Assign(r3, m, "conf_thres")
        r5 == Assign(r4, m, "iou_thres")
        r6 == Assign(r5, m, "model_weight_file")
    IN  SetUpdate(r6)

\* faulty variant: the IoU entry is written from the confidence field
get_values_swapped(p) ==
    [model_name |-> p.model_name,
     cuda |-> str_bool(p.cuda),
     input_size |-> str_int(p.input_size),
     conf_thres |-> str_float(p.conf_thres),
     iou_thres |-> str_float(p.conf_thres),
     update |-> str_bool(p.update),
     model_weight_file |-> p.model_weight_file]

\* InferYoloV8Param.get_values()
get_values(p) ==
    [model_name |-> p.model_name,
     cuda |-> str_bool(p.cuda),
     input_size |-> str_int(p.input_size),
     conf_thres |-> str_float(p.conf_thres),
     iou_thres |-> str_float(p.iou_thres),
     update |-> str_bool(p.update),
     model_weight_file |-> p.model_weight_file]

-----------------------------------------------------------------------------
(* InferYoloV8 *)

\* self.model = None
NoModel == [id |-> 0, weights |-> ""]

IsNone(m) == m.id = 0

\* self.classes = None
NoClasses == [set |-> FALSE, names |-> <<>>]

Call(op, args) == [op |-> op, args |-> args]

\* faulty variant: the detector is rebuilt on every run
NeedLoad_always(p, m) == TRUE

\* the condition of  if param.update or self.model is None
NeedLoad(p, m) == p.update \/ IsNone(m)

\* the argument of YOLO(...): the weight file when one is given, else the preset
WeightSource(p) ==
    IF p.model_weight_file # "" THEN p.model_weight_file ELSE p.model_name \o ".pt"

DeviceOf(p) == IF p.cuda THEN "cuda" ELSE "cpu"

HalfOf(p) == IF p.cuda THEN TRUE ELSE FALSE

\* faulty variant: the dirty flag is not reset after the load
LoadModel_keeps_flag(t, ok, id) ==
    LET src == WeightSource(t.param)
        t1 == [t EXCEPT !.device = DeviceOf(t.param), !.half = HalfOf(t.param),
                        !.calls = @ \o <<Call("YOLO", <<src>>)>>]
    IN  IF ok
        THEN [t1 EXCEPT !.model = [id |-> id, weights |-> src]]
        ELSE [t1 EXCEPT !.err = "load"]

\* faulty variant: the dirty flag is reset before the detector is constructed
LoadModel_clears_first(t, ok, id) ==
    LET src == WeightSource(t.param)
        t1 == [t EXCEPT !.device = DeviceOf(t.param), !.half = HalfOf(t.param),
                        !.param.update = FALSE,
                        !.calls = @ \o <<Call("YOLO", <<src>>)>>]
    IN  IF ok
        THEN [t1 EXCEPT !.model = [id |-> id, weights |-> src]]
        ELSE [t1 EXCEPT !.err = "load"]

\* the body of the model-loading branch; t = [param, model, device, half, calls, err],
\* ok says whether YOLO(...) returns (a new instance, numbered id) or raises
LoadModel(t, ok, id) ==
    LET src == WeightSource(t.param)
        t1 == [t EXCEPT !.device = DeviceOf(t.param), !.half = HalfOf(t.param),
                        !.calls = @ \o <<Call("YOLO", <<src>>)>>]
    IN  IF ok
        THEN [t1 EXCEPT !.model = [id |-> id, weights |-> src], !.param.update = FALSE]
        ELSE [t1 EXCEPT !.err = "load"]

\* the arguments of self.model.predict(...), with the instance it is called on
PredictArgs(t) ==
    [model |-> t.model, imgsz |-> t.param.input_size, conf |-> t.param.conf_thres,
     iou |-> t.param.iou_thres, half |-> t.half, device |-> t.device]

Min(a, b) == IF a < b THEN a ELSE b

\* int(x) of a non-negative float: truncation
py_trunc(x) == x \div Scale

\* faulty variant: the bottom-right corner is passed as width and height
AddObjectArgs_corner(i, box, conf, cls) ==
    [index |-> i, class_id |-> py_trunc(cls), confidence |-> conf,
     x |-> box[1], y |-> box[2], width |-> box[3], height |-> box[4]]

\* the add_object call of iteration i (0-based) of the loop over
\* zip(boxes, confidences, class_idx)
AddObjectArgs(i, box, conf, cls) ==
    LET x1 == box[1]
        y1 == box[2]
        x2 == box[3]
        y2 == box[4]
        widht == x2 - x1
        height == y2 - y1
    IN  [index |-> i, class_id |-> py_trunc(cls), confidence |-> conf,
         x |-> x1, y |-> y1, width |-> widht, height |-> height]

\* the loop: one add_object per element of the zip, in order
AddObjects(res) ==
    LET n == Min(Len(res.xyxy), Min(Len(res.conf), Len(res.cls)))
    IN  [k \in 1..n |-> AddObjectArgs(k - 1, res.xyxy[k], res.conf[k], res.cls[k])]

\* faulty variant: the output is not cleared
clear_data_noop(out) == out

\* get_output(1).clear_data()
clear_data(out) == <<>>

\* the host's add_object: the detection is appended to the output
add_object(out, o) == Append(out, o)

RECURSIVE AddAll(_, _)
AddAll(out, objs) == IF objs = <<>> THEN out ELSE AddAll(add_object(out, Head(objs)), Tail(objs))

\* InferYoloV8.run(): p the parameter object, m/dev/h/cls the task's fields,
\* out the detection output; loadOk, predOk and res are what the detector
\* library does (construction succeeds, predict succeeds, predict's result)
run(p, m, dev, h, cls, out, loadOk, predOk, res, id) ==
    LET t0 == [param |-> p, model |-> m, device |-> dev, half |-> h, classes |-> cls,
               output |-> clear_data(out),
               calls |-> <<Call("begin_task_run", <<>>), Call("clear_data", <<>>)>>,
               err |-> "none"]
        t1 == IF NeedLoad(t0.param, t0.model) THEN LoadModel(t0, loadOk, id) ELSE t0
        t2 == IF t1.err # "none" THEN t1
              ELSE IF predOk
                   THEN [t1 EXCEPT !.calls = @ \o <<Call("predict", PredictArgs(t1))>>]
                   ELSE [t1 EXCEPT !.calls = @ \o <<Call("predict", PredictArgs(t1))>>,
                                   !.err = "predict"]
        objs == AddObjects(res)
        t3 == IF t2.err # "none" THEN t2
              ELSE [t2 EXCEPT !.classes = [set |-> TRUE, names |-> res.names],
                              !.output = AddAll(@, objs),
                              !.calls = @ \o <<Call("set_names", res.names)>>
                                          \o [k \in 1..Len(objs) |-> Call("add_object", objs[k])]
                                          \o <<Call("emit_step_progress", <<>>),
                                               Call("end_task_run", <<>>)>>]
    IN  t3

-----------------------------------------------------------------------------
(* InferYoloV8Widget *)

NoWidget == [open |-> FALSE]

\* the items added to the model-name combo box, in order
ComboItems == <<"yolov8n", "yolov8s", "yolov8m", "yolov8l", "yolov8x">>

InCombo(s) == \E i \in 1..Len(ComboItems) : ComboItems[i] = s

\* QComboBox.setCurrentText on a non-editable combo: the matching item is
\* selected; without a match the selection (the first item) stays
SetCurrentText(s) == IF InCombo(s) THEN s ELSE ComboItems[1]

\* decimals of the two threshold spin boxes
SpinDecimals == 2

\* a double spin box with range [0, 1] and SpinDecimals decimals rounds its
\* value to the decimals and keeps it inside the range
ClampUnit(v) ==
    LET q == Pow10(FracDigits - SpinDecimals)
        r == ((2 * v + q) \div (2 * q)) * q
    IN  IF r < 0 THEN 0 ELSE IF r > Scale THEN Scale ELSE r

\* InferYoloV8Widget.__init__(param, parent) with param the task's object
InferYoloV8Widget(p, g) ==
    [open |-> TRUE,
     check_cuda |-> (p.cuda /\ g),
     check_enabled |-> g,
     combo_model |-> SetCurrentText(p.model_name),
     spin_input_size |-> p.input_size,
     spin_conf_thres |-> ClampUnit(p.conf_thres),
     spin_iou_thres |-> ClampUnit(p.iou_thres)]

\* faulty variant: the dirty flag is not set
on_apply_no_flag(p, w) ==
    LET p5 == [p EXCEPT !.model_name = w.combo_model, !.cuda = w.check_cuda,
                        !.input_size = w.spin_input_size,
                        !.conf_thres = w.spin_conf_thres,
                        !.iou_thres = w.spin_iou_thres]
    IN  [param |-> p5, calls |-> <<Call("emit_apply", p5)>>]

\* InferYoloV8Widget.on_apply(): the parameter object after the call and the
\* call made on the host
on_apply(p, w) ==
    LET p1 == [p EXCEPT !.model_name = w.combo_model]
        p2 == [p1 EXCEPT !.cuda = w.check_cuda]
        p3 == [p2 EXCEPT !.input_size = w.spin_input_size]
        p4 == [p3 EXCEPT !.conf_thres = w.spin_conf_thres]
        p5 == [p4 EXCEPT !.iou_thres = w.spin_iou_thres]
        p6 == [p5 EXCEPT !.update = TRUE]
    IN  [param |-> p6, calls |-> <<Call("emit_apply", p6)>>]

-----------------------------------------------------------------------------
(* Inputs *)

T_True == <<"T", "r", "u", "e">>
T_False == <<"F", "a", "l", "s", "e">>
T_640 == <<"6", "4", "0">>
T_320 == <<"3", "2", "0">>
T_025 == <<"0", ".", "2", "5">>
T_05 == <<"0", ".", "5">>
T_07 == <<"0", ".", "7">>

MapsOver(names, cudas, sizes, confs, ious, updates, files) ==
    {[model_name |-> n, cuda |-> c, input_size |-> s, conf_thres |-> ct,
      iou_thres |-> it, update |-> u, model_weight_file |-> f] :
        n \in names, c \in cudas, s \in sizes, ct \in confs, it \in ious,
        u \in updates, f \in files}

\* the dictionary m without key k
Drop(m, k) == [x \in (DOMAIN m) \ {k} |-> m[x]]

\* dictionaries in the form get_values writes, given to set_values between runs
RunMaps ==
    MapsOver({"yolov8n", "yolov8m"}, {T_True, T_False}, {T_640}, {T_025}, {T_07},
             {T_False}, {""})
    \cup MapsOver({"yolov8m"}, {T_False}, {T_320}, {T_025}, {T_07}, {T_True}, {"best.pt"})

\* dictionaries that make set_values raise part-way
BrokenRunMaps ==
    LET base == MapsOver({"yolov8n"}, {T_False}, {T_640}, {T_025}, {T_07}, {T_True}, {""})
    IN  {Drop(m, "input_size") : m \in base}
        \cup {[m EXCEPT !.conf_thres = <<"x">>] : m \in base}

\* what predict returns: boxes (xyxy), confidences and class indices of equal
\* length, and the class names
Names == <<"person", "car">>

Dets == {[box |-> <<10, 20, 50, 80>>, conf |-> 90, cls |-> 0],
         [box |-> <<5, 5, 6, 9>>, conf |-> 40, cls |-> Scale]}

ResultOf(ds) ==
    [xyxy |-> [k \in 1..Len(ds) |-> ds[k].box],
     conf |-> [k \in 1..Len(ds) |-> ds[k].conf],
     cls |-> [k \in 1..Len(ds) |-> ds[k].cls],
     names |-> Names]

Results == {ResultOf(ds) : ds \in UNION {[1..n -> Dets] : n \in 0..MaxDet}}

NoResult == ResultOf(<<>>)

\* the results drawn where the detections themselves are not the subject
FewResults == {r \in Results : Len(r.xyxy) = 1}

\* the param argument of InferYoloV8(name, param): None, or an object
CtorArgs(g) ==
    {[given |-> FALSE, p |-> InferYoloV8Param(g)],
     [given |-> TRUE, p |-> [InferYoloV8Param(g) EXCEPT !.model_name = "yolov8n"]],
     [given |-> TRUE, p |-> [InferYoloV8Param(g) EXCEPT !.model_weight_file = "best.pt",
                                                        !.update = TRUE]]}

-----------------------------------------------------------------------------
(* The state machine *)

\* InferYoloV8.__init__(name, param), through InferYoloV8Factory.create
Init ==
    /\ gpu \in BOOLEAN
    /\ \E a \in CtorArgs(gpu) :
        /\ param = (IF a.given THEN a.p ELSE InferYoloV8Param(gpu))
        /\ last = [op |-> "create", arg |-> a, err |-> "none"]
    /\ model = NoModel
    /\ device = "cpu"
    /\ half = FALSE
    /\ classes = NoClasses
    /\ output = <<>>
    /\ widget = NoWidget
    /\ calls = <<>>
    /\ nloads = 0

\* the host hands a dictionary to the parameter object
SetValues(m) ==
    LET r == set_values(param, m)
    IN  /\ param' = r.param
        /\ last' = [op |-> "set_values", arg |-> m, err |-> r.err]
        /\ calls' = <<>>
        /\ UNCHANGED <<gpu, model, device, half, classes, output, widget, nloads>>

\* the host runs the task
Run(loadOk, predOk, res) ==
    LET t == run(param, model, device, half, classes, output, loadOk, predOk, res,
                 nloads + 1)
        loaded == t.model # model
    IN  /\ loaded => nloads < MaxLoads
        /\ param' = t.param
        /\ model' = t.model
        /\ device' = t.device
        /\ half' = t.half
        /\ classes' = t.classes
        /\ output' = t.output
        /\ calls' = t.calls
        /\ nloads' = IF loaded THEN nloads + 1 ELSE nloads
        /\ last' = [op |-> "run", arg |-> (IF t.err = "none" THEN res ELSE NoResult),
                    err |-> t.err, had |-> Len(output)]
        /\ UNCHANGED <<gpu, widget>>

\* what the detector library can do in one run from the current state
Outcomes(results) ==
    {[loadOk |-> TRUE, predOk |-> TRUE, res |-> r] : r \in results}
    \cup {[loadOk |-> TRUE, predOk |-> FALSE, res |-> NoResult]}
    \cup (IF NeedLoad(param, model)
          THEN {[loadOk |-> FALSE, predOk |-> TRUE, res |-> NoResult]} ELSE {})

\* the host opens the settings panel on the task's parameter object
CreateWidget ==
    /\ widget' = InferYoloV8Widget(param, gpu)
    /\ UNCHANGED <<gpu, param, model, device, half, classes, output, calls, last, nloads>>

\* the user changes one form control
UserEdit(w) ==
    /\ widget.open
    /\ w # widget
    /\ widget' = w
    /\ UNCHANGED <<gpu, param, model, device, half, classes, output, calls, last, nloads>>

\* what the user can turn the form into with one change
Edits(w, sizes, confs) ==
    IF ~w.open THEN {}
    ELSE
    {[w EXCEPT !.check_cuda = b] : b \in (IF w.check_enabled THEN BOOLEAN ELSE {w.check_cuda})}
    \cup {[w EXCEPT !.combo_model = ComboItems[i]] : i \in {1, 3}}
    \cup {[w EXCEPT !.spin_input_size = v] : v \in sizes}
    \cup {[w EXCEPT !.spin_conf_thres = v] : v \in confs}
    \cup {[w EXCEPT !.spin_iou_thres = v] : v \in confs}

\* the user presses Apply
OnApply ==
    LET r == on_apply(param, widget)
    IN  /\ widget.open
        /\ param' = r.param
        /\ calls' = r.calls
        /\ last' = [op |-> "on_apply", arg |-> widget, err |-> "none"]
        /\ UNCHANGED <<gpu, model, device, half, classes, output, widget, nloads>>

Next ==
    \/ \E m \in RunMaps \cup BrokenRunMaps : SetValues(m)
    \/ \E o \in Outcomes(FewResults) : Run(o.loadOk, o.predOk, o.res)
    \/ CreateWidget
    \/ \E w \in Edits(widget, {320}, {}) : UserEdit(w)
    \/ OnApply

Spec == Init /\ [][Next]_vars

-----------------------------------------------------------------------------
(* The parameter object alone: set_values over a wide range of dictionaries *)

T_15 == <<"1", ".", "5">>
T_10 == <<"1", ".", "0">>

CanonMapA ==
    [model_name |-> "yolov8n", cuda |-> T_True, input_size |-> T_640,
     conf_thres |-> T_025, iou_thres |-> T_07, update |-> T_False,
     model_weight_file |-> ""]

CanonMapB ==
    [model_name |-> "yolov8m-seg", cuda |-> T_False, input_size |-> T_320,
     conf_thres |-> T_05, iou_thres |-> T_10, update |-> T_True,
     model_weight_file |-> "best.pt"]

\* values tried for one key: the forms get_values writes, other spellings
\* Python accepts, and strings it rejects
Variants(k) ==
    CASE k = "model_name" -> {"yolov8x", ""}
      [] k = "cuda" -> {T_True, T_False, <<"t", "r", "u", "e">>, <<"1">>, <<"O", "N">>,
                        <<"n", "o">>, <<"0">>, <<"m", "a", "y", "b", "e">>, <<>>}
      [] k = "input_size" -> {T_320, <<" ", "6", "4", "0", " ">>, <<"+", "6", "4", "0">>,
                              <<"0", "6", "4", "0">>, <<"-", "1">>, <<"0">>,
                              <<"6", "4", "o">>, <<"6", ".", "5">>, <<>>}
      [] k \in {"conf_thres", "iou_thres"} ->
                       {T_05, T_15, T_10, <<"0", ".", "5", "0">>, <<".", "5">>, <<"1">>,
                        <<"1", ".">>, <<" ", "0", ".", "7">>, <<"+", "0", ".", "7">>,
                        <<"0", "0", ".", "7">>, <<"0", ".", "0">>,
                        <<"x">>, <<".">>, <<"0", ".", "7", ".", "1">>, <<>>}
      [] k = "update" -> {T_True, T_False, <<"j", "u", "n", "k">>}
      [] OTHER -> {"", "best.pt"}

ParamMaps ==
    LET bases == {CanonMapA, CanonMapB}
    IN  bases
        \cup UNION {{[b EXCEPT ![k] = v] : v \in Variants(k)} : b \in bases, k \in Keys}
        \cup {Drop(b, k) : b \in bases, k \in Keys}
        \cup {Drop(Drop(CanonMapA, "update"), k) : k \in Keys}

NextParam == \E m \in ParamMaps : SetValues(m)

SpecParam == Init /\ [][NextParam]_vars

-----------------------------------------------------------------------------
(* The task alone: runs over every detector result, between reloads *)

NextOutput ==
    \/ \E o \in Outcomes(Results) : Run(o.loadOk, o.predOk, o.res)
    \/ \E m \in {CanonMapA, CanonMapB} : SetValues(m)

SpecOutput == Init /\ [][NextOutput]_vars

-----------------------------------------------------------------------------
(* The widget and the parameter object: every control edited *)

WidgetMaps ==
    {CanonMapA, CanonMapB, [CanonMapB EXCEPT !.conf_thres = T_15]}

NextWidget ==
    \/ CreateWidget
    \/ \E w \in Edits(widget, {320, 640}, {FloatLit(T_025), FloatLit(T_05)}) : UserEdit(w)
    \/ OnApply
    \/ \E m \in WidgetMaps : SetValues(m)

SpecWidget == Init /\ [][NextWidget]_vars

-----------------------------------------------------------------------------
(* Properties *)

\* positions in a call sequence of the calls of one operation
CallsOf(cs, op) == {k \in 1..Len(cs) : cs[k].op = op}

OpsOf(cs) == {cs[k].op : k \in 1..Len(cs)}

IsAddObject(c) == c.op = "add_object"

\* the add_object calls of the most recent handler, in order
AddCalls == SelectSeq(calls, IsAddObject)

\* a step that is one run()
RunStep == last'.op = "run" /\ widget' = widget

\* a step that is one on_apply()
OnApplyStep == last'.op = "on_apply" /\ widget' = widget

\* C1: a run constructs the detector only if, when it checks, the dirty flag
\* is set or no model is loaded; a run that starts clean with a model loaded
\* constructs nothing and predicts with the instance it found.
C1_ReloadOnlyWhenDirtyOrUnloaded ==
    [][RunStep =>
        /\ (CallsOf(calls', "YOLO") # {} => (param.update \/ IsNone(model)))
        /\ ((~param.update /\ ~IsNone(model)) =>
              /\ CallsOf(calls', "YOLO") = {}
              /\ model' = model
              /\ nloads' = nloads
              /\ CallsOf(calls', "predict") # {}
              /\ \A k \in CallsOf(calls', "predict") : calls'[k].args.model = model)]_vars

\* C1 witness: after a reload caused by a parameter change, a later run
\* reused the loaded instance without constructing anything.
C1_Witness ==
    /\ last.op = "run" /\ last.err = "none"
    /\ CallsOf(calls, "YOLO") = {}
    /\ nloads = 2
    /\ model.id = 2

\* the parameters were changed and the dirty flag set by the previous operation
ParamChanged == (last.op = "set_values" /\ last.err = "none") \/ last.op = "on_apply"

\* C2: the first run of a fresh task loads once; a run that follows a
\* returned run with no parameter operation in between loads nothing; the run
\* that follows a parameter change loads exactly once, before its predict
\* call, and returns with the dirty flag cleared.
C2_ReloadOnChange ==
    [][RunStep =>
        /\ ((last.op = "run" /\ last.err = "none") =>
              (CallsOf(calls', "YOLO") = {} /\ nloads' = nloads))
        /\ ((last.op = "create" /\ last'.err = "none") =>
              (Cardinality(CallsOf(calls', "YOLO")) = 1 /\ nloads' = 1))
        /\ ((ParamChanged /\ last'.err = "none") =>
              /\ Cardinality(CallsOf(calls', "YOLO")) = 1
              /\ nloads' = nloads + 1
              /\ \A y \in CallsOf(calls', "YOLO"), q \in CallsOf(calls', "predict") : y < q
              /\ CallsOf(calls', "predict") # {}
              /\ ~param'.update)]_vars

\* C2 witness: a model was loaded, the parameters were changed, and the next
\* run returned after exactly one load placed before its predict call.
C2_Witness ==
    /\ last.op = "run" /\ last.err = "none"
    /\ Cardinality(CallsOf(calls, "YOLO")) = 1
    /\ nloads = 2
    /\ ~param.update
    /\ model.weights = "best.pt"

\* C10: when the detector construction fails the run stops there: nothing
\* is predicted or added, progress and end-of-run are not signalled, the
\* output stays cleared, the dirty flag and the model reference keep their
\* values, and the next run attempts the construction again.
C10_LoadFailurePropagates ==
    [][RunStep =>
        /\ (last'.err = "load" =>
              /\ OpsOf(calls') \cap {"predict", "set_names", "add_object",
                                     "emit_step_progress", "end_task_run"} = {}
              /\ output' = <<>>
              /\ param'.update = param.update
              /\ model' = model
              /\ nloads' = nloads
              /\ (param'.update \/ IsNone(model')))
        /\ ((last.op = "run" /\ last.err = "load") => CallsOf(calls', "YOLO") # {})]_vars

\* C10 witness: a reload of an already loaded task failed; the old instance
\* and the set dirty flag are still there.
C10_Witness ==
    /\ last.op = "run" /\ last.err = "load"
    /\ model.id = 1
    /\ param.update
    /\ last.had > 0

\* C9: at every predict call the instance in use was loaded from the weight
\* source the current parameters select, device and half follow the current
\* cuda flag, and imgsz/conf/iou are the current values.
C9_PredictMatchesParameters ==
    \A k \in CallsOf(calls, "predict") :
        LET a == calls[k].args
        IN  /\ a.model.weights = (IF param.model_weight_file # ""
                                  THEN param.model_weight_file
                                  ELSE param.model_name \o ".pt")
            /\ a.device = (IF param.cuda THEN "cuda" ELSE "cpu")
            /\ a.half = param.cuda
            /\ a.imgsz = param.input_size
            /\ a.conf = param.conf_thres
            /\ a.iou = param.iou_thres

\* C8: a parameter object built by default holds yolov8m, 640, 0.25, 0.7,
\* cuda iff a GPU is available, a clear dirty flag and no weight file; a task
\* built with param None owns such an object and no model.
C8_Defaults ==
    (last.op = "create" /\ ~last.arg.given) =>
        /\ DOMAIN param = Keys
        /\ param.model_name = "yolov8m"
        /\ param.input_size = 640
        /\ param.conf_thres * 100 = 25 * Scale
        /\ param.iou_thres * 10 = 7 * Scale
        /\ param.cuda = gpu
        /\ param.update = FALSE
        /\ param.model_weight_file = ""
        /\ IsNone(model)

\* C8 witness: a task just built with param None on a machine with a GPU.
C8_Witness == last.op = "create" /\ ~last.arg.given /\ gpu /\ param.cuda /\ nloads = 0

\* C4: a returned run made one add_object call per detection, in the
\* detector's order, with the 0-based position, the class, the confidence,
\* the top-left corner and width = x2 - x1, height = y2 - y1.
C4_OutputMapping ==
    (last.op = "run" /\ last.err = "none") =>
        LET res == last.arg
        IN  /\ Len(AddCalls) = Len(res.xyxy)
            /\ \A k \in 1..Len(res.xyxy) :
                LET o == AddCalls[k].args
                IN  /\ o.index = k - 1
                    /\ o.class_id * Scale = res.cls[k]
                    /\ o.confidence = res.conf[k]
                    /\ o.x = res.xyxy[k][1]
                    /\ o.y = res.xyxy[k][2]
                    /\ o.width = res.xyxy[k][3] - res.xyxy[k][1]
                    /\ o.height = res.xyxy[k][4] - res.xyxy[k][2]

\* C4 witness: a returned run whose detector gave two different detections.
C4_Witness ==
    /\ last.op = "run" /\ last.err = "none"
    /\ Len(last.arg.xyxy) = 2
    /\ last.arg.xyxy[1] # last.arg.xyxy[2]
    /\ Len(AddCalls) = 2

\* C5: clear_data is called before any construction, prediction or
\* add_object of the run, and after a returned run the output holds exactly
\* that run's detections; after a failed run it is empty.
C5_OutputCleared ==
    last.op = "run" =>
        /\ CallsOf(calls, "clear_data") # {}
        /\ \A c \in CallsOf(calls, "clear_data"),
              k \in CallsOf(calls, "YOLO") \cup CallsOf(calls, "predict")
                    \cup CallsOf(calls, "add_object") : c < k
        /\ (last.err = "none" =>
              /\ Len(output) = Len(last.arg.xyxy)
              /\ output = [k \in 1..Len(AddCalls) |-> AddCalls[k].args])
        /\ (last.err # "none" => output = <<>>)

\* C5 witness: the output held two detections, and a returned run that
\* found one left exactly one.
C5_Witness ==
    /\ last.op = "run" /\ last.err = "none"
    /\ last.had = 2
    /\ Len(last.arg.xyxy) = 1
    /\ Len(output) = 1

\* C7: on_apply copies the five controls into the parameter object, sets
\* the dirty flag, leaves model_weight_file alone and calls emit_apply once,
\* with the object as written.
C7_OnApply ==
    [][OnApplyStep =>
        /\ param' = [model_name |-> widget.combo_model,
                     cuda |-> widget.check_cuda,
                     input_size |-> widget.spin_input_size,
                     conf_thres |-> widget.spin_conf_thres,
                     iou_thres |-> widget.spin_iou_thres,
                     update |-> TRUE,
                     model_weight_file |-> param.model_weight_file]
        /\ calls' = <<[op |-> "emit_apply", args |-> param']>>]_vars

\* C7 witness: Apply was pressed with edited controls on an object that has
\* a weight file.
C7_Witness ==
    /\ last.op = "on_apply"
    /\ param.model_weight_file = "best.pt"
    /\ param.model_name = "yolov8n"
    /\ param.input_size = 640
    /\ param.conf_thres # param.iou_thres
    /\ param.update
    /\ Len(calls) = 1

\* whether a dictionary value can be converted to the type of its field
Parsable(k, s) ==
    CASE k = "cuda" -> strtobool(s).ok
      [] k = "input_size" -> py_int(s).ok
      [] k \in {"conf_thres", "iou_thres"} -> py_float(s).ok
      [] OTHER -> TRUE

\* the keys set_values reads
ReadKeys == Keys \ {"update"}

\* C6, as the specification states it: set_values fails exactly when one of the seven keys is
\* absent or a present value cannot be parsed.
C6_FailsIffAnyKeyBad ==
    last.op = "set_values" =>
        (last.err # "none" <=>
            \E k \in Keys : k \notin DOMAIN last.arg \/ ~Parsable(k, last.arg[k]))

\* C6, amended: set_values fails exactly when one of the six keys it reads
\* (all but update) is absent or cannot be parsed; the update entry is never
\* read.
C6_FailsIffReadKeyBad ==
    last.op = "set_values" =>
        (last.err # "none" <=>
            \E k \in ReadKeys : k \notin DOMAIN last.arg \/ ~Parsable(k, last.arg[k]))

\* C6 witness: a dictionary without the update key was accepted.
C6_Witness ==
    /\ last.op = "set_values"
    /\ "update" \notin DOMAIN last.arg
    /\ last.err = "none"
    /\ param.update

\* every key present and every value parsable as its type
WellFormed(m) ==
    /\ DOMAIN m = Keys
    /\ \A k \in ReadKeys : Parsable(k, m[k])
    /\ strtobool(m["update"]).ok

NoLeadingZero(d) == d # <<>> /\ AllDigits(d) /\ (Len(d) > 1 => d[1] # "0")

\* an integer as str() writes it
CanonInt(s) ==
    IF s # <<>> /\ Head(s) = "-"
    THEN NoLeadingZero(Tail(s)) /\ Tail(s) # <<"0">>
    ELSE NoLeadingZero(s)

\* a non-negative float as str() writes it: digits, a point, digits, with no
\* zero to drop at either end
CanonFloat(s) ==
    /\ Cardinality({i \in 1..Len(s) : s[i] = "."}) = 1
    /\ LET k == DotAt(s)
           ip == SubSeq(s, 1, k - 1)
           fp == SubSeq(s, k + 1, Len(s))
       IN  /\ NoLeadingZero(ip)
           /\ fp # <<>> /\ AllDigits(fp) /\ Len(fp) <= FracDigits
           /\ (Len(fp) > 1 => fp[Len(fp)] # "0")

\* every key present, every value in the form get_values writes
Canonical(m) ==
    /\ DOMAIN m = Keys
    /\ m["cuda"] \in {T_True, T_False}
    /\ CanonInt(m["input_size"])
    /\ CanonFloat(m["conf_thres"])
    /\ CanonFloat(m["iou_thres"])

\* C3, as the specification states it: get_values after set_values(m) returns m, for every
\* well-formed m.
C3_RoundTrip ==
    (last.op = "set_values" /\ WellFormed(last.arg)) =>
        (last.err = "none" /\ get_values(param) = last.arg)

\* C3, amended: for m in the form get_values writes, get_values after
\* set_values(m) agrees with m on every key but update, which reads "True".
C3_RoundTripExceptUpdate ==
    (last.op = "set_values" /\ Canonical(last.arg)) =>
        (last.err = "none" /\ get_values(param) = [last.arg EXCEPT !["update"] = T_True])

\* C3 witness: a dictionary in get_values' form with update "False" was set.
C3_Witness ==
    /\ last.op = "set_values" /\ last.err = "none"
    /\ Canonical(last.arg)
    /\ last.arg["update"] = T_False
    /\ last.arg["model_weight_file"] = "best.pt"
    /\ get_values(param)["update"] = T_True

====
